---- MODULE Spec2Model ----
(***************************************************************************)
(* Model of the analytics data model (models/user_analytics.py) and of the *)
(* Flask route handlers that reach it (app.py).                            *)
(*                                                                         *)
(* Python numbers are modelled exactly: ints as integers, the results of   *)
(* true division and float arithmetic as reduced fractions [n, d] with     *)
(* d > 0.  Rates and durations range over whole numbers.                   *)
(***************************************************************************)
EXTENDS Integers, Sequences, FiniteSets, TLC

VARIABLES metrics, ua, doc, agg, result, http

vars == <<metrics, ua, doc, agg, result, http>>

(***************************************************************************)
(* Exact arithmetic                                                        *)
(***************************************************************************)
Abs(x) == IF x < 0 THEN -x ELSE x

RECURSIVE GCD(_, _)
GCD(a, b) == IF b = 0 THEN a ELSE GCD(b, a % b)

\* the fraction n/d (d # 0) in lowest terms with a positive denominator
Frac(n, d) ==
    LET sn == IF d < 0 THEN -n ELSE n
        sd == Abs(d)
        g  == GCD(Abs(sn), sd)
    IN  [n |-> sn \div g, d |-> sd \div g]

Num(i) == [n |-> i, d |-> 1]

RAdd(a, b) == Frac(a.n * b.d + b.n * a.d, a.d * b.d)
RSub(a, b) == Frac(a.n * b.d - b.n * a.d, a.d * b.d)
RMul(a, b) == Frac(a.n * b.n, a.d * b.d)
RDiv(a, b) == Frac(a.n * b.d, a.d * b.n)
RLess(a, b) == a.n * b.d < b.n * a.d
RLeq(a, b) == a.n * b.d <= b.n * a.d
RMin(a, b) == IF RLess(b, a) THEN b ELSE a

(***************************************************************************)
(* Values shared by the operations                                         *)
(***************************************************************************)
None == [kind |-> "None"]
NoCall == [op |-> "none"]
ValueError == [kind |-> "ValueError"]
TypeError == [kind |-> "TypeError"]
Ok(v) == [kind |-> "ok", value |-> v]

(***************************************************************************)
(* AnalyticsMetrics                                                        *)
(***************************************************************************)
SessionVals == {-1, 0, 20, 60}
PageviewVals == {-1, 0, 100, 700}
DurationVals == {-1, 300, 900}
ConversionVals == {-10, 0, 9}
RateVals == {-1, 0, 100, 101}

MetricsArgs ==
    [sessions : SessionVals, pageviews : PageviewVals,
     avg_session_duration : DurationVals, conversions : ConversionVals,
     bounce_rate : RateVals, retention_rate : RateVals]

\* validate: "ok" or the exception raised
validate(self) ==
    IF self.sessions < 0 THEN "ValueError"
    ELSE IF self.pageviews < 0 THEN "ValueError"
    ELSE IF self.avg_session_duration < 0 THEN "ValueError"
    ELSE IF ~(0 <= self.bounce_rate /\ self.bounce_rate <= 100) THEN "ValueError"
    ELSE IF ~(0 <= self.retention_rate /\ self.retention_rate <= 100) THEN "ValueError"
    ELSE "ok"

\* the dataclass constructor: __init__ assigns the fields, __post_init__ validates
AnalyticsMetrics(args) ==
    IF validate(args) = "ok" THEN Ok(args) ELSE ValueError

\* a variant with equal weights
weights_equal == <<Frac(25, 100), Frac(25, 100), Frac(25, 100), Frac(25, 100)>>

weights == <<Frac(3, 10), Frac(25, 100), Frac(25, 100), Frac(2, 10)>>

RECURSIVE SumProducts(_, _, _)
SumProducts(w, s, i) ==
    IF i > Len(w) \/ i > Len(s) THEN Num(0)
    ELSE RAdd(SumProducts(w, s, i + 1), RMul(w[i], s[i]))

calculate_engagement_score(self) ==
    IF self.sessions = 0 THEN Num(0)
    ELSE
      LET session_score == RMin(Frac(self.sessions, 50), Num(1))
          pageview_score ==
              RMin(RDiv(Frac(self.pageviews, self.sessions), Num(10)), Num(1))
          duration_score == RMin(Frac(self.avg_session_duration, 600), Num(1))
          conversion_score == RMin(Frac(self.conversions, 5), Num(1))
          scores == <<session_score, pageview_score, duration_score, conversion_score>>
      IN  SumProducts(weights, scores, 1)

Metrics_to_dict(self) ==
    [sessions |-> self.sessions,
     pageviews |-> self.pageviews,
     avg_session_duration |-> self.avg_session_duration,
     conversions |-> self.conversions,
     bounce_rate |-> self.bounce_rate,
     retention_rate |-> self.retention_rate,
     engagement_score |-> calculate_engagement_score(self)]

(***************************************************************************)
(* State machine of a caller holding one AnalyticsMetrics                  *)
(***************************************************************************)
Init ==
    /\ metrics = None
    /\ ua = None
    /\ doc = None
    /\ agg = None
    /\ result = NoCall
    /\ http = [pc |-> "idle"]

\* metrics = AnalyticsMetrics(**args); metrics is None when the constructor raised
NewMetrics ==
    \E args \in MetricsArgs :
        LET r == AnalyticsMetrics(args) IN
        /\ metrics' = IF r.kind = "ok" THEN r ELSE None
        /\ result' = [op |-> "AnalyticsMetrics", args |-> args, ret |-> r]
        /\ UNCHANGED <<ua, doc, agg, http>>

CallEngagementScore ==
    /\ metrics.kind = "ok"
    /\ result' = [op |-> "calculate_engagement_score",
                  ret |-> calculate_engagement_score(metrics.value)]
    /\ UNCHANGED <<metrics, ua, doc, agg, http>>

CallMetricsToDict ==
    /\ metrics.kind = "ok"
    /\ result' = [op |-> "Metrics.to_dict", ret |-> Metrics_to_dict(metrics.value)]
    /\ UNCHANGED <<metrics, ua, doc, agg, http>>

Next == NewMetrics \/ CallEngagementScore \/ CallMetricsToDict

Spec == Init /\ [][Next]_vars

(***************************************************************************)
(* Properties of AnalyticsMetrics                                          *)
(***************************************************************************)
InRange(m) ==
    /\ m.sessions >= 0
    /\ m.pageviews >= 0
    /\ m.avg_session_duration >= 0
    /\ m.conversions >= 0
    /\ 0 <= m.bounce_rate /\ m.bounce_rate <= 100
    /\ 0 <= m.retention_rate /\ m.retention_rate <= 100

\* C1: the constructor raises whenever one of the six fields is out of its
\* documented range, so no held instance has an out-of-range field
\* (negative conversions included).
C1_OutOfRangeRejected ==
    /\ (result.op = "AnalyticsMetrics" /\ ~InRange(result.args)
            => result.ret.kind = "ValueError")
    /\ (metrics.kind = "ok" => InRange(metrics.value))

\* C2: every instance the constructor accepts scores within [0.0, 1.0].
C2_ScoreInUnitInterval ==
    result.op = "calculate_engagement_score"
        => RLeq(Num(0), result.ret) /\ RLeq(result.ret, Num(1))

Min(a, b) == IF a < b THEN a ELSE b

\* the reference formula over the common denominator 60000 * sessions
RefScore(m) ==
    IF m.sessions = 0 THEN Num(0)
    ELSE Frac(360 * m.sessions * Min(m.sessions, 50)
              + 1500 * Min(m.pageviews, 10 * m.sessions)
              + 25 * m.sessions * Min(m.avg_session_duration, 600)
              + 2400 * m.sessions * Min(m.conversions, 5),
              60000 * m.sessions)

ExampleMetrics ==
    [sessions |-> 20, pageviews |-> 100, avg_session_duration |-> 300,
     conversions |-> 0, bounce_rate |-> 0, retention_rate |-> 0]

MaxDay == 2
SecVals == {0, 86399}
MicroVals == {0, 5}

Datetimes == [day : 0..MaxDay, sec : SecVals, us : MicroVals]

DtLess(a, b) ==
    \/ a.day < b.day
    \/ a.day = b.day /\ a.sec < b.sec
    \/ a.day = b.day /\ a.sec = b.sec /\ a.us < b.us

DtGeq(a, b) == ~DtLess(a, b)

\* a variant that counts calendar days and ignores the time of day
DeltaDays_calendar(b, a) == b.day - a.day

\* (b - a).days of the normalised timedelta
DeltaDays(b, a) ==
    LET us == b.us - a.us
        sec == (b.sec - a.sec) - (IF us < 0 THEN 1 ELSE 0)
    IN  (b.day - a.day) - (IF sec < 0 THEN 1 ELSE 0)

\* a variant with timespec='seconds': the microseconds are never written
isoformat_seconds(dt) ==
    <<dt.day, dt.sec \div 3600, (dt.sec % 3600) \div 60, dt.sec % 60>>

isoformat(dt) ==
    LET hms == <<dt.day, dt.sec \div 3600, (dt.sec % 3600) \div 60, dt.sec % 60>>
    IN  IF dt.us = 0 THEN hms ELSE Append(hms, dt.us)

fromisoformat(str) ==
    [day |-> str[1],
     sec |-> str[2] * 3600 + str[3] * 60 + str[4],
     us |-> IF Len(str) > 4 THEN str[5] ELSE 0]

(***************************************************************************)
(* UserAnalytics                                                           *)
(***************************************************************************)
\* dict.get(key, default)
Get(d, key, default) == IF key \in DOMAIN d THEN d[key] ELSE default

EmptyDict == [k \in {} |-> 0]

\* a variant that accepts an empty period (period_start = period_end)
UserAnalytics_empty_period(user_id, period_start, period_end, m, metadata) ==
    IF DtLess(period_end, period_start) THEN ValueError
    ELSE IF user_id = "" THEN ValueError
    ELSE Ok([user_id |-> user_id, period_start |-> period_start,
             period_end |-> period_end, metrics |-> m, metadata |-> metadata])

\* the dataclass constructor followed by __post_init__
UserAnalytics(user_id, period_start, period_end, m, metadata) ==
    IF DtGeq(period_start, period_end) THEN ValueError
    ELSE IF user_id = "" THEN ValueError
    ELSE Ok([user_id |-> user_id, period_start |-> period_start,
             period_end |-> period_end, metrics |-> m, metadata |-> metadata])

get_period_days(self) == DeltaDays(self.period_end, self.period_start)

Max(a, b) == IF a > b THEN a ELSE b

get_daily_averages(self) ==
    LET days == Max(get_period_days(self), 1)
    IN  [sessions_per_day |-> Frac(self.metrics.sessions, days),
         pageviews_per_day |-> Frac(self.metrics.pageviews, days),
         conversions_per_day |-> Frac(self.metrics.conversions, days)]

calculate_change(current, baseline_val) ==
    IF baseline_val = Num(0)
    THEN (IF RLess(Num(0), current) THEN Num(100) ELSE Num(0))
    ELSE RMul(RDiv(RSub(current, baseline_val), baseline_val), Num(100))

\* the mapping returned for two records of one user
change_mapping(self, baseline) ==
    [sessions |->
         calculate_change(Num(self.metrics.sessions),
                          Num(baseline.metrics.sessions)),
     pageviews |->
         calculate_change(Num(self.metrics.pageviews),
                          Num(baseline.metrics.pageviews)),
     avg_session_duration |->
         calculate_change(Num(self.metrics.avg_session_duration),
                          Num(baseline.metrics.avg_session_duration)),
     conversions |->
         calculate_change(Num(self.metrics.conversions),
                          Num(baseline.metrics.conversions)),
     engagement_score |->
         calculate_change(calculate_engagement_score(self.metrics),
                          calculate_engagement_score(baseline.metrics))]

\* a variant without the user_id check
compare_to_baseline_any_user(self, baseline) ==
    Ok(change_mapping(self, baseline))

compare_to_baseline(self, baseline) ==
    IF baseline.user_id # self.user_id THEN ValueError
    ELSE Ok(change_mapping(self, baseline))

User_to_dict(self) ==
    [user_id |-> self.user_id,
     period |-> [start |-> isoformat(self.period_start),
                 end |-> isoformat(self.period_end),
                 days |-> get_period_days(self)],
     metrics |-> Metrics_to_dict(self.metrics),
     daily_averages |-> get_daily_averages(self),
     metadata |-> self.metadata]

\* data is a mapping that has the keys user_id, period.start and period.end
from_dict(data) ==
    LET metrics_data == Get(data, "metrics", EmptyDict)
        m == AnalyticsMetrics(
                 [sessions |-> Get(metrics_data, "sessions", 0),
                  pageviews |-> Get(metrics_data, "pageviews", 0),
                  avg_session_duration |-> Get(metrics_data, "avg_session_duration", 0),
                  conversions |-> Get(metrics_data, "conversions", 0),
                  bounce_rate |-> Get(metrics_data, "bounce_rate", 0),
                  retention_rate |-> Get(metrics_data, "retention_rate", 0)])
        period == Get(data, "period", EmptyDict)
    IN  IF m.kind # "ok" THEN m
        ELSE UserAnalytics(data["user_id"],
                           fromisoformat(period["start"]),
                           fromisoformat(period["end"]),
                           m.value,
                           Get(data, "metadata", {}))

(***************************************************************************)
(* State machine of a caller holding one UserAnalytics                     *)
(***************************************************************************)
\* the instances the constructor returns for the given argument grid
MetricsOver(Args) ==
    {AnalyticsMetrics(a).value : a \in {x \in Args : AnalyticsMetrics(x).kind = "ok"}}

UsersOver(Ids, Dts, Mets, Metas) ==
    LET made == {UserAnalytics(a[1], a[2], a[3], a[4], a[5]) :
                    a \in Ids \X Dts \X Dts \X Mets \X Metas}
    IN  {r.value : r \in {x \in made : x.kind = "ok"}}

UserIds == {"", "u1"}
Metadatas == {{}, {<<"plan", "pro">>}}
RoundTripMetrics ==
    MetricsOver({ExampleMetrics,
                 [sessions |-> 60, pageviews |-> 700, avg_session_duration |-> 900,
                  conversions |-> -10, bounce_rate |-> 100, retention_rate |-> 0],
                 [sessions |-> 0, pageviews |-> 0, avg_session_duration |-> 300,
                  conversions |-> 9, bounce_rate |-> 0, retention_rate |-> 100]})

CompareIds == {"u1", "u2"}
CompareDts == {[day |-> 0, sec |-> 0, us |-> 0], [day |-> MaxDay, sec |-> 0, us |-> 0]}
CompareMetrics ==
    MetricsOver([sessions : {0, 20}, pageviews : {0, 100},
                 avg_session_duration : {0, 300}, conversions : {-10, 0, 2},
                 bounce_rate : {0}, retention_rate : {0}])
CompareUsers == UsersOver(CompareIds, CompareDts, CompareMetrics, {{}})

\* ua = UserAnalytics(...); ua is None when the constructor raised
NewUserAnalytics(Ids, Dts, Mets, Metas) ==
    \E id \in Ids, ps \in Dts, pe \in Dts, m \in Mets, md \in Metas :
        LET r == UserAnalytics(id, ps, pe, m, md) IN
        /\ ua' = IF r.kind = "ok" THEN r ELSE None
        /\ doc' = None
        /\ result' = [op |-> "UserAnalytics",
                      args |-> [user_id |-> id, period_start |-> ps,
                                period_end |-> pe, metrics |-> m, metadata |-> md],
                      ret |-> r]
        /\ UNCHANGED <<metrics, agg, http>>

CallPeriodDays ==
    /\ ua.kind = "ok"
    /\ result' = [op |-> "get_period_days", ret |-> get_period_days(ua.value)]
    /\ UNCHANGED <<metrics, ua, doc, agg, http>>

CallDailyAverages ==
    /\ ua.kind = "ok"
    /\ result' = [op |-> "get_daily_averages", ret |-> get_daily_averages(ua.value)]
    /\ UNCHANGED <<metrics, ua, doc, agg, http>>

CallCompareToBaseline(Baselines) ==
    /\ ua.kind = "ok"
    /\ \E baseline \in Baselines :
          result' = [op |-> "compare_to_baseline", baseline |-> baseline,
                     ret |-> compare_to_baseline(ua.value, baseline)]
    /\ UNCHANGED <<metrics, ua, doc, agg, http>>

\* doc = ua.to_dict()
CallUserToDict ==
    /\ ua.kind = "ok"
    /\ doc' = Ok(User_to_dict(ua.value))
    /\ result' = [op |-> "UserAnalytics.to_dict", ret |-> doc'.value]
    /\ UNCHANGED <<metrics, ua, agg, http>>

\* UserAnalytics.from_dict(doc)
CallFromDict ==
    /\ doc.kind = "ok"
    /\ result' = [op |-> "UserAnalytics.from_dict", ret |-> from_dict(doc.value)]
    /\ UNCHANGED <<metrics, ua, doc, agg, http>>

\* the mappings a caller makes of a serialised record by changing entries
EditedDicts(d) ==
    {d,
     [d EXCEPT !.user_id = ""],
     [d EXCEPT !.period.end = d.period.start],
     [d EXCEPT !.period.start = d.period.end, !.period.end = d.period.start],
     [d EXCEPT !.metrics.sessions = -1]}

\* UserAnalytics.from_dict(data) for a mapping that no to_dict produced
CallFromDictData ==
    /\ doc.kind = "ok"
    /\ \E data \in EditedDicts(doc.value) :
          result' = [op |-> "UserAnalytics.from_dict(data)", data |-> data,
                     ret |-> from_dict(data)]
    /\ UNCHANGED <<metrics, ua, doc, agg, http>>

NextUser ==
    \/ NewUserAnalytics(UserIds, Datetimes, RoundTripMetrics, Metadatas)
    \/ CallPeriodDays
    \/ CallDailyAverages
    \/ CallUserToDict
    \/ CallFromDict
    \/ CallFromDictData

SpecUser == Init /\ [][NextUser]_vars

NextCompare ==
    \/ NewUserAnalytics(CompareIds, CompareDts, CompareMetrics, {{}})
    \/ CallCompareToBaseline(CompareUsers)

SpecCompare == Init /\ [][NextCompare]_vars

(***************************************************************************)
(* Properties of UserAnalytics                                             *)
(***************************************************************************)
ComparedDifferentUsers ==
    /\ result.op = "compare_to_baseline"
    /\ result.baseline.user_id # ua.value.user_id

\* C4 (as stated): comparing records of different users fails with a
\* ComparisonError, an error distinct from the constructor's ValueError.
C4_ComparisonErrorRaised ==
    ComparedDifferentUsers => result.ret.kind = "ComparisonError"

\* C4 (amended): comparing records of different users raises ValueError,
\* the exception the constructors raise, and returns no change mapping, also
\* when the two records agree in every other field.
C4_DifferentUsersRaiseValueError ==
    ComparedDifferentUsers
        => /\ result.ret = ValueError
           /\ result.ret = UserAnalytics("", ua.value.period_start,
                                         ua.value.period_end, ua.value.metrics,
                                         ua.value.metadata)
           /\ "value" \notin DOMAIN result.ret

C4_Witness ==
    /\ ComparedDifferentUsers
    /\ [result.baseline EXCEPT !.user_id = ua.value.user_id] = ua.value
    /\ result.ret = ValueError

\* C6: from_dict(u.to_dict()) succeeds and equals u in every field.
C6_RoundTrip ==
    result.op = "UserAnalytics.from_dict"
        => /\ result.ret.kind = "ok"
           /\ result.ret.value = ua.value
           /\ \A f \in {"user_id", "period_start", "period_end", "metrics", "metadata"} :
                  result.ret.value[f] = ua.value[f]

C6_Witness ==
    /\ result.op = "UserAnalytics.from_dict"
    /\ result.ret = ua
    /\ ua.value.period_end.us # 0
    /\ ua.value.period_start.sec # 0
    /\ ua.value.metadata # {}
    /\ ua.value.metrics.conversions # 0
    /\ doc.value.period.days = 1

\* the two constructor conditions on plain values
BadUserArgs(user_id, period_start, period_end) ==
    \/ user_id = ""
    \/ period_start = period_end
    \/ DtLess(period_end, period_start)

\* C11: constructing a UserAnalytics raises when user_id is empty or
\* period_start >= period_end (equal included), also through from_dict; every
\* constructed instance has a non-empty user_id and period_start < period_end.
C11_UserAnalyticsValidated ==
    /\ result.op = "UserAnalytics"
           => (result.ret = ValueError
                  <=> BadUserArgs(result.args.user_id, result.args.period_start,
                                  result.args.period_end))
    /\ result.op = "UserAnalytics.from_dict(data)"
         /\ BadUserArgs(result.data.user_id,
                        fromisoformat(result.data.period.start),
                        fromisoformat(result.data.period.end))
           => result.ret = ValueError
    /\ \A r \in {ua} \cup (IF result.op \in {"UserAnalytics", "UserAnalytics.from_dict",
                                              "UserAnalytics.from_dict(data)"}
                            THEN {result.ret} ELSE {}) :
           r.kind = "ok"
               => /\ r.value.user_id # ""
                  /\ DtLess(r.value.period_start, r.value.period_end)

C11_Witness ==
    /\ result.op = "UserAnalytics.from_dict(data)"
    /\ result.data.user_id # ""
    /\ result.data.period.start = result.data.period.end
    /\ result.data.metrics.sessions >= 0
    /\ result.ret = ValueError

\* the whole days from a to b: the largest k with a + k days <= b
WholeDays(a, b) ==
    CHOOSE k \in 0..(MaxDay + 1) :
        /\ ~DtLess(b, [a EXCEPT !.day = a.day + k])
        /\ DtLess(b, [a EXCEPT !.day = a.day + k + 1])

\* C12: get_period_days is >= 0 (0 for a period shorter than a day) and
\* get_daily_averages divides sessions, pageviews and conversions by
\* d = max(period_days, 1), never by zero; for a sub-day period the averages
\* are the raw totals.
C12_PeriodDaysAndAverages ==
    /\ result.op = "get_period_days"
           => /\ result.ret >= 0
              /\ result.ret = WholeDays(ua.value.period_start, ua.value.period_end)
    /\ result.op = "get_daily_averages"
           => LET days == WholeDays(ua.value.period_start, ua.value.period_end)
                  d == IF days > 1 THEN days ELSE 1
                  m == ua.value.metrics
              IN  /\ d >= 1
                  /\ RMul(result.ret.sessions_per_day, Num(d)) = Num(m.sessions)
                  /\ RMul(result.ret.pageviews_per_day, Num(d)) = Num(m.pageviews)
                  /\ RMul(result.ret.conversions_per_day, Num(d)) = Num(m.conversions)
                  /\ result.ret.sessions_per_day.d # 0
                  /\ days = 0 =>
                        result.ret = [sessions_per_day |-> Num(m.sessions),
                                      pageviews_per_day |-> Num(m.pageviews),
                                      conversions_per_day |-> Num(m.conversions)]

C12_Witness ==
    /\ result.op = "get_daily_averages"
    /\ ua.value.period_start.day < ua.value.period_end.day
    /\ get_period_days(ua.value) = 0
    /\ ua.value.metrics.sessions > 0
    /\ result.ret.sessions_per_day = Num(ua.value.metrics.sessions)

\* the claimed percentage change between a current and a baseline value
ChangeAsClaimed(ret, current, baseline_val) ==
    IF baseline_val = Num(0) /\ RLess(Num(0), current) THEN ret = Num(100)
    ELSE IF baseline_val = Num(0) /\ current = Num(0) THEN ret = Num(0)
    ELSE /\ baseline_val.n # 0
         /\ RMul(ret, baseline_val) = RMul(RSub(current, baseline_val), Num(100))

\* C10: for the same user, every reported change is 100 when the baseline is 0
\* and the current value positive, 0 when both are 0, and otherwise
\* (current - baseline) / baseline * 100; self-comparison yields 0 everywhere.
C10_ChangeIsReferenceFormula ==
    result.op = "compare_to_baseline" /\ result.baseline.user_id = ua.value.user_id
        => /\ result.ret.kind = "ok"
           /\ \A f \in {"sessions", "pageviews", "avg_session_duration", "conversions"} :
                  ChangeAsClaimed(result.ret.value[f], Num(ua.value.metrics[f]),
                                  Num(result.baseline.metrics[f]))
           /\ ChangeAsClaimed(result.ret.value.engagement_score,
                              RefScore(ua.value.metrics),
                              RefScore(result.baseline.metrics))
           /\ (result.baseline = ua.value
                  => \A f \in DOMAIN result.ret.value : result.ret.value[f] = Num(0))

(***************************************************************************)
(* AggregateAnalytics                                                      *)
(***************************************************************************)
MaxUsers == 3
MaxLimit == 4

MetricFields ==
    {"sessions", "pageviews", "avg_session_duration", "conversions",
     "bounce_rate", "retention_rate"}
MethodNames == {"validate", "calculate_engagement_score", "to_dict"}
MetricNames == MetricFields \cup {"to_dict", "engagement_score", "clicks"}

\* hasattr / getattr on an AnalyticsMetrics instance: the six fields hold
\* numbers, the method names are bound methods
hasattr(m, name) == name \in MetricFields \cup MethodNames

IntVal(v) == [t |-> "num", v |-> v]
BoundMethod(name) == [t |-> "method", name |-> name]

getattr(m, name) == IF name \in MetricFields THEN IntVal(m[name]) ELSE BoundMethod(name)

\* ordering two values raises TypeError unless both are numbers
Comparable(s) == Len(s) < 2 \/ \A i \in 1..Len(s) : s[i].t = "num"

\* a variant that orders the wrong way round
RECURSIVE InsertAsc_reversed(_, _, _)
InsertAsc_reversed(s, x, i) ==
    IF i > Len(s) THEN Append(s, x)
    ELSE IF x.key.v > s[i].key.v
         THEN SubSeq(s, 1, i - 1) \o <<x>> \o SubSeq(s, i, Len(s))
         ELSE InsertAsc_reversed(s, x, i + 1)

RECURSIVE InsertAsc(_, _, _)
InsertAsc(s, x, i) ==
    IF i > Len(s) THEN Append(s, x)
    ELSE IF x.key.v < s[i].key.v
         THEN SubSeq(s, 1, i - 1) \o <<x>> \o SubSeq(s, i, Len(s))
         ELSE InsertAsc(s, x, i + 1)

\* a variant that puts an item before the items of equal key (not stable)
RECURSIVE InsertDesc_unstable(_, _, _)
InsertDesc_unstable(s, x, i) ==
    IF i > Len(s) THEN Append(s, x)
    ELSE IF x.key.v >= s[i].key.v
         THEN SubSeq(s, 1, i - 1) \o <<x>> \o SubSeq(s, i, Len(s))
         ELSE InsertDesc_unstable(s, x, i + 1)

RECURSIVE InsertDesc(_, _, _)
InsertDesc(s, x, i) ==
    IF i > Len(s) THEN Append(s, x)
    ELSE IF x.key.v > s[i].key.v
         THEN SubSeq(s, 1, i - 1) \o <<x>> \o SubSeq(s, i, Len(s))
         ELSE InsertDesc(s, x, i + 1)

\* list.sort(key=...): stable; with reverse=True equal keys also keep their order
RECURSIVE sort(_, _, _)
sort(items, reverse, done) ==
    IF done = Len(items) THEN <<>>
    ELSE LET rest == sort(items, reverse, done + 1)
             x == items[Len(items) - done]
         IN  IF reverse THEN InsertDesc(rest, x, 1) ELSE InsertAsc(rest, x, 1)

\* the items of s, each paired with its sort key
Keyed(s, keys) == [i \in 1..Len(s) |-> [key |-> keys[i], item |-> s[i]]]
Items(s) == [i \in 1..Len(s) |-> s[i].item]

\* s[:limit]
Slice(s, limit) ==
    IF limit >= 0 THEN SubSeq(s, 1, Min(limit, Len(s)))
    ELSE SubSeq(s, 1, Max(Len(s) + limit, 0))

ZeroPercentiles ==
    [p25 |-> IntVal(0), p50 |-> IntVal(0), p75 |-> IntVal(0), p95 |-> IntVal(0)]

\* int(n * p) for p = pct / 100
IntTimes(n, pct) == (n * pct) \div 100

Carrying(user_breakdown, metric) ==
    SelectSeq(user_breakdown, LAMBDA u : hasattr(u.metrics, metric))

calculate_percentiles(self, metric) ==
    IF self.user_breakdown = <<>> THEN Ok(ZeroPercentiles)
    ELSE
      LET carrying == Carrying(self.user_breakdown, metric)
          values == [i \in 1..Len(carrying) |-> getattr(carrying[i].metrics, metric)]
      IN  IF values = <<>> THEN Ok(ZeroPercentiles)
          ELSE IF ~Comparable(values) THEN TypeError
          ELSE LET sorted == Items(sort(Keyed(values, values), FALSE, 0))
                   n == Len(sorted)
               IN  Ok([p25 |-> sorted[IntTimes(n, 25) + 1],
                       p50 |-> sorted[IntTimes(n, 50) + 1],
                       p75 |-> sorted[IntTimes(n, 75) + 1],
                       p95 |-> sorted[IntTimes(n, 95) + 1]])

get_top_users(self, metric, limit) ==
    LET carrying == Carrying(self.user_breakdown, metric)
        user_scores ==
            [i \in 1..Len(carrying) |->
                [user_id |-> carrying[i].user_id,
                 value |-> getattr(carrying[i].metrics, metric),
                 metric |-> metric]]
        keys == [i \in 1..Len(user_scores) |-> user_scores[i].value]
    IN  IF ~Comparable(keys) THEN TypeError
        ELSE Ok(Slice(Items(sort(Keyed(user_scores, keys), TRUE, 0)), limit))

\* self.user_breakdown once calculate_percentiles has returned: the method
\* fills and sorts its own list `values`
breakdown_after_percentiles(self, metric) == self.user_breakdown

\* a variant that sorts self.user_breakdown itself, in place
breakdown_sorted_in_place(self, metric) ==
    IF metric \in MetricFields
    THEN Items(sort(Keyed(self.user_breakdown,
                          [i \in 1..Len(self.user_breakdown) |->
                              getattr(self.user_breakdown[i].metrics, metric)]),
                    TRUE, 0))
    ELSE self.user_breakdown

\* self.user_breakdown once get_top_users has returned: the method fills and
\* sorts its own list `user_scores`
breakdown_after_top_users(self, metric) == self.user_breakdown

(***************************************************************************)
(* State machine of a caller holding one AggregateAnalytics                *)
(***************************************************************************)
BreakdownDts == CompareDts
BreakdownMetrics ==
    MetricsOver({ExampleMetrics,
                 [sessions |-> 60, pageviews |-> 100, avg_session_duration |-> 900,
                  conversions |-> 9, bounce_rate |-> 100, retention_rate |-> 0]})
BreakdownUsers == UsersOver({"a", "b"}, BreakdownDts, BreakdownMetrics, {{}})

Breakdowns == UNION {[1..n -> BreakdownUsers] : n \in 0..MaxUsers}

\* the dataclass constructor; AggregateAnalytics validates nothing
AggregateAnalytics(total_users, period_start, period_end, m, user_breakdown, trends) ==
    Ok([total_users |-> total_users, period_start |-> period_start,
        period_end |-> period_end, aggregate_metrics |-> m,
        user_breakdown |-> user_breakdown, trends |-> trends])

NewAggregate ==
    \E breakdown \in Breakdowns :
        /\ agg' = AggregateAnalytics(MaxUsers, [day |-> 0, sec |-> 0, us |-> 0],
                                     [day |-> MaxDay, sec |-> 0, us |-> 0],
                                     ExampleMetrics, breakdown, EmptyDict)
        /\ result' = [op |-> "AggregateAnalytics"]
        /\ UNCHANGED <<metrics, ua, doc, http>>

CallPercentiles ==
    /\ agg.kind = "ok"
    /\ \E metric \in MetricNames :
          /\ result' = [op |-> "calculate_percentiles", metric |-> metric,
                        ret |-> calculate_percentiles(agg.value, metric)]
          /\ agg' = Ok([agg.value EXCEPT !.user_breakdown =
                            breakdown_after_percentiles(agg.value, metric)])
    /\ UNCHANGED <<metrics, ua, doc, http>>

CallTopUsers ==
    /\ agg.kind = "ok"
    /\ \E metric \in MetricNames, limit \in -1..MaxLimit :
          /\ result' = [op |-> "get_top_users", metric |-> metric, limit |-> limit,
                        ret |-> get_top_users(agg.value, metric, limit)]
          /\ agg' = Ok([agg.value EXCEPT !.user_breakdown =
                            breakdown_after_top_users(agg.value, metric)])
    /\ UNCHANGED <<metrics, ua, doc, http>>

NextAgg == NewAggregate \/ CallPercentiles \/ CallTopUsers

SpecAgg == Init /\ [][NextAgg]_vars

(***************************************************************************)
(* Properties of AggregateAnalytics                                        *)
(***************************************************************************)
\* C5: a metric name that is not one of the six fields makes
\* calculate_percentiles and get_top_users fail with UnknownMetric when
\* user_breakdown is not empty.
C5_UnknownMetricRaised ==
    /\ result.op \in {"calculate_percentiles", "get_top_users"}
    /\ result.metric \notin MetricFields
    /\ agg.value.user_breakdown # <<>>
    => result.ret.kind = "UnknownMetric"

\* the metric's value for the i-th user of the breakdown
ValueAt(i) == agg.value.user_breakdown[i].metrics[result.metric]

\* the stable descending order of the users: positions of 1..n arranged so
\* that values do not increase and equal values keep their breakdown order
StableDescending(n) ==
    CHOOSE p \in [1..n -> 1..n] :
        \A i, j \in 1..n :
            i < j => \/ ValueAt(p[i]) > ValueAt(p[j])
                     \/ ValueAt(p[i]) = ValueAt(p[j]) /\ p[i] < p[j]

C8_PercentilesNearestRank ==
    result.op = "calculate_percentiles" /\ result.metric \in MetricFields
    => LET n == Len(agg.value.user_breakdown)
           Ps == [p25 |-> 25, p50 |-> 50, p75 |-> 75, p95 |-> 95]
           below(v) == Cardinality({i \in 1..n : ValueAt(i) < v})
           upto(v) == Cardinality({i \in 1..n : ValueAt(i) <= v})
       IN  /\ result.ret.kind = "ok"
           /\ DOMAIN result.ret.value = DOMAIN Ps
           /\ n = 0 => result.ret.value = ZeroPercentiles
           /\ n > 0 =>
                \A k \in DOMAIN Ps :
                    LET idx == (n * Ps[k]) \div 100
                        v == result.ret.value[k].v
                    IN  /\ idx \in 0..(n - 1)
                        /\ \E i \in 1..n : ValueAt(i) = v
                        /\ below(v) <= idx
                        /\ idx < upto(v)
           /\ n = 1 => \A k \in DOMAIN Ps : result.ret.value[k].v = ValueAt(1)

C8_Witness ==
    /\ result.op = "calculate_percentiles"
    /\ result.metric = "sessions"
    /\ result.ret.kind = "ok"
    /\ Len(agg.value.user_breakdown) = 3
    /\ agg.value.user_breakdown[1].metrics.sessions
           > agg.value.user_breakdown[2].metrics.sessions
    /\ result.ret.value.p25.v < result.ret.value.p95.v

(***************************************************************************)
(* Route handlers of app.py.  A request is handled statement by statement; *)
(* the services behind the handlers return data, return nothing, or raise. *)
(***************************************************************************)
DaysParams ==
    {[kind |-> "absent"], [kind |-> "text"]}
        \cup {[kind |-> "int", v |-> d] : d \in {0, 1, 365, 366}}

RequestKeys(keys) == {None} \cup {Ok(k) : k \in SUBSET keys}

ServiceOutcomes == {"data", "empty", "ValueError", "Exception"}

Request(endpoint, path, input) ==
    [endpoint |-> endpoint, path |-> path, input |-> input, pc |-> "start",
     days |-> 0, called |-> FALSE, outcome |-> "none", status |-> 0]

Respond(status) == [http EXCEPT !.pc = "done", !.status = status]

Receive(r) ==
    /\ http.pc \in {"idle", "done"}
    /\ http' = r
    /\ UNCHANGED <<metrics, ua, doc, agg, result>>

Handling(endpoint, pc) ==
    /\ http.pc = pc
    /\ http.endpoint = endpoint

\* the except clauses of get_user_analytics
gua_except(exc) == IF exc = "ValueError" THEN 400 ELSE 500

gua_receive ==
    \E user_id \in CompareIds, p \in DaysParams :
        Receive(Request("get_user_analytics", user_id, p))

\* days = int(request.args.get('days', 30))
gua_parse ==
    /\ Handling("get_user_analytics", "start")
    /\ http' = IF http.input.kind = "absent"
                   THEN [http EXCEPT !.pc = "validate", !.days = 30]
               ELSE IF http.input.kind = "int"
                   THEN [http EXCEPT !.pc = "validate", !.days = http.input.v]
               ELSE Respond(gua_except("ValueError"))
    /\ UNCHANGED <<metrics, ua, doc, agg, result>>

\* a variant that checks only the lower limit of days
gua_validate_no_upper ==
    /\ Handling("get_user_analytics", "validate")
    /\ http' = IF http.days < 1
               THEN Respond(400)
               ELSE [http EXCEPT !.pc = "call"]
    /\ UNCHANGED <<metrics, ua, doc, agg, result>>

gua_validate ==
    /\ Handling("get_user_analytics", "validate")
    /\ http' = IF http.days < 1 \/ http.days > 365
               THEN Respond(400)
               ELSE [http EXCEPT !.pc = "call"]
    /\ UNCHANGED <<metrics, ua, doc, agg, result>>

\* analytics_data = analytics_service.get_user_analytics(...)
gua_call ==
    /\ Handling("get_user_analytics", "call")
    /\ \E o \in ServiceOutcomes :
          http' = IF o \in {"ValueError", "Exception"}
                  THEN [Respond(gua_except(o)) EXCEPT !.called = TRUE, !.outcome = o]
                  ELSE [http EXCEPT !.pc = "check", !.called = TRUE, !.outcome = o]
    /\ UNCHANGED <<metrics, ua, doc, agg, result>>

gua_check ==
    /\ Handling("get_user_analytics", "check")
    /\ http' = IF http.outcome = "empty" THEN Respond(404) ELSE Respond(200)
    /\ UNCHANGED <<metrics, ua, doc, agg, result>>

\* the except clause of generate_aggregate_analytics
agg_except(exc) == 500

agg_receive ==
    \E body \in RequestKeys({"user_ids", "date_range", "metrics"}) :
        Receive(Request("generate_aggregate_analytics", "", body))

agg_check_body ==
    /\ Handling("generate_aggregate_analytics", "start")
    /\ http' = IF http.input = None \/ http.input.value = {}
                   THEN Respond(400)
               ELSE IF \E f \in {"user_ids", "date_range", "metrics"} :
                           f \notin http.input.value
                   THEN Respond(400)
               ELSE [http EXCEPT !.pc = "call"]
    /\ UNCHANGED <<metrics, ua, doc, agg, result>>

\* result = analytics_service.generate_aggregate_analytics(...)
agg_call ==
    /\ Handling("generate_aggregate_analytics", "call")
    /\ \E o \in ServiceOutcomes :
          http' = IF o \in {"ValueError", "Exception"}
                  THEN [Respond(agg_except(o)) EXCEPT !.called = TRUE, !.outcome = o]
                  ELSE [Respond(200) EXCEPT !.called = TRUE, !.outcome = o]
    /\ UNCHANGED <<metrics, ua, doc, agg, result>>

\* the except clauses of generate_report
report_except(exc) == IF exc = "ValueError" THEN 400 ELSE 500

report_receive ==
    \E body \in RequestKeys({"report_type", "parameters", "format"}) :
        Receive(Request("generate_report", "", body))

report_check_body ==
    /\ Handling("generate_report", "start")
    /\ http' = IF http.input = None \/ http.input.value = {}
                  \/ "report_type" \notin http.input.value
               THEN Respond(400)
               ELSE [http EXCEPT !.pc = "call"]
    /\ UNCHANGED <<metrics, ua, doc, agg, result>>

\* report = report_service.generate_report(...)
report_call ==
    /\ Handling("generate_report", "call")
    /\ \E o \in ServiceOutcomes :
          http' = IF o \in {"ValueError", "Exception"}
                  THEN [Respond(report_except(o)) EXCEPT !.called = TRUE, !.outcome = o]
                  ELSE [Respond(200) EXCEPT !.called = TRUE, !.outcome = o]
    /\ UNCHANGED <<metrics, ua, doc, agg, result>>

NextHttp ==
    \/ gua_receive \/ gua_parse \/ gua_validate \/ gua_call \/ gua_check
    \/ agg_receive \/ agg_check_body \/ agg_call
    \/ report_receive \/ report_check_body \/ report_call

SpecHttp == Init /\ [][NextHttp]_vars

(***************************************************************************)
(* Properties of the route handlers                                        *)
(***************************************************************************)
\* C9: on get_user_analytics, generate_aggregate_analytics and
\* generate_report a ValueError from the core is answered with a 400-class
\* status and every other failure with a 500-class status.
C9_ErrorsMapToStatus ==
    http.pc = "done" /\ http.called
    => /\ http.outcome = "ValueError" => http.status \in 400..499
       /\ http.outcome = "Exception" => http.status \in 500..599

(***************************************************************************)
(* The read operations on instances that already exist: one of each class, *)
(* drawn at the start, and any sequence of calls on them                   *)
(***************************************************************************)
PureUsers == UsersOver({"a", "b"}, BreakdownDts, {ExampleMetrics}, {{}})

InitPure ==
    /\ metrics \in {Ok(m) : m \in BreakdownMetrics}
    /\ ua \in {Ok(u) : u \in PureUsers}
    /\ agg \in {AggregateAnalytics(MaxUsers, [day |-> 0, sec |-> 0, us |-> 0],
                                   [day |-> MaxDay, sec |-> 0, us |-> 0],
                                   ExampleMetrics, b, EmptyDict) : b \in Breakdowns}
    /\ doc = None
    /\ result = NoCall
    /\ http = [pc |-> "idle"]

NextPure ==
    \/ CallEngagementScore
    \/ CallMetricsToDict
    \/ CallPeriodDays
    \/ CallDailyAverages
    \/ CallCompareToBaseline(PureUsers)
    \/ CallUserToDict
    \/ CallPercentiles
    \/ CallTopUsers

SpecPure == InitPure /\ [][NextPure]_vars

\* the call recorded in result, without what it returned
CallOf(r) == [f \in DOMAIN r \ {"ret"} |-> r[f]]

HandlerStep ==
    \/ gua_parse \/ gua_validate \/ gua_call \/ gua_check
    \/ agg_check_body \/ agg_call
    \/ report_check_body \/ report_call

SpecHttpLive == Init /\ [][NextHttp]_vars /\ WF_vars(HandlerStep)

\* the days a get_user_analytics request asks for, when that is an integer
DaysAsked(input) == IF input.kind = "absent" THEN 30 ELSE input.v

DaysAccepted(input) ==
    /\ input.kind \in {"absent", "int"}
    /\ 1 <= DaysAsked(input)
    /\ DaysAsked(input) <= 365

InGetUserAnalytics == http.pc # "idle" /\ http.endpoint = "get_user_analytics"

\* C14: get_user_analytics calls the service only after days has parsed as an
\* integer in 1..365; a request with any other days is answered 400 without
\* a call; every request ends in one response, with status 200, 400, 404 or
\* 500, and 404 when the service returns no data.
C14_ServiceCalledAfterValidation ==
    /\ [](InGetUserAnalytics =>
            /\ http.pc \in {"call", "check"} \/ http.called
                   => DaysAccepted(http.input) /\ http.days = DaysAsked(http.input)
            /\ http.pc = "done" /\ ~DaysAccepted(http.input)
                   => http.status = 400 /\ ~http.called
            /\ http.pc = "done"
                   => /\ http.status \in {200, 400, 404, 500}
                      /\ http.status \in {200, 404} => http.called
                      /\ http.called =>
                            (http.status = 404 <=> http.outcome = "empty")
            /\ http.pc # "done" => http.status = 0)
    /\ [][InGetUserAnalytics /\ http.pc = "done" => http'.pc = "start"]_vars
    /\ (InGetUserAnalytics /\ http.pc = "start" ~> http.pc = "done")

C14_Witness ==
    /\ InGetUserAnalytics
    /\ http.pc = "done"
    /\ http.input = [kind |-> "int", v |-> 366]
    /\ http.status = 400
    /\ ~http.called

====
